---- MODULE Spec2Model ----
(***************************************************************************)
(* Account Analytics Dashboard (src/app.py): one run of main() per user    *)
(* interaction.  The run connects, renders the selected page (Dashboard,   *)
(* Account Details or Data Explorer) and closes the connection.            *)
(*                                                                         *)
(* Values are modelled as tagged cells so that a raw number, a NULL and a  *)
(* formatted string are different things; text is a sequence of            *)
(* characters so that formatting, CSV writing and CSV reading are real     *)
(* computations.                                                           *)
(***************************************************************************)
EXTENDS Integers, Sequences, FiniteSets, TLC

(***************************************************************************)
(* Bounds of the model.                                                    *)
(***************************************************************************)
MaxRows == 2        \* rows of the Accounts table in a full run
MaxAggRows == 3     \* rows of the Accounts table in an aggregation
MaxTopRows == 2     \* rows of a free-shape 'Top 5' result
MaxArity == 4       \* row arity of a free-shape 'Top 5' result

(***************************************************************************)
(* Cells: what a driver row or a DataFrame holds.                          *)
(***************************************************************************)
Null == [tag |-> "null", n |-> 0, s |-> <<>>]
PyInt(k) == [tag |-> "int", n |-> k, s |-> <<>>]
Float(k) == [tag |-> "float", n |-> k, s |-> <<>>]
Str(t) == [tag |-> "str", n |-> 0, s |-> t]
Num(bt, k) == [tag |-> bt, n |-> k, s |-> <<>>]

\* float('nan'): what pandas puts for None in a column it infers as float64.
NaN == [tag |-> "nan", n |-> 0, s |-> <<>>]

IsNumeric(c) == c.tag \in {"int", "float", "dec"}

\* The two storage types of the Balance column (decimal or float).
BalanceTypes == {"float", "dec"}
\* Balance amounts used by the model: below and above the default ad-hoc
\* query's threshold, and large enough for a thousands separator.
Amounts == {5, 7000}
TypeNames == {<<"A">>, <<"B">>}
TypeCells == {Str(t) : t \in TypeNames} \cup {Null}

(***************************************************************************)
(* Text.                                                                   *)
(***************************************************************************)
DigitChars == <<"0", "1", "2", "3", "4", "5", "6", "7", "8", "9">>

RECURSIVE Digits(_)
Digits(k) ==
  IF k < 10 THEN <<DigitChars[k + 1]>>
  ELSE Digits(k \div 10) \o <<DigitChars[(k % 10) + 1]>>

Pad3(k) ==
  <<DigitChars[(k \div 100) + 1], DigitChars[((k \div 10) % 10) + 1],
    DigitChars[(k % 10) + 1]>>

\* The ',' option of Python's format mini-language: groups of three digits.
RECURSIVE Grouped(_)
Grouped(k) ==
  IF k < 1000 THEN Digits(k)
  ELSE Grouped(k \div 1000) \o <<",">> \o Pad3(k % 1000)

\* f"${x:,.2f}" of a whole amount.
Currency(k) ==
  <<"$">> \o (IF k < 0 THEN <<"-">> ELSE <<>>)
          \o Grouped(IF k < 0 THEN 0 - k ELSE k) \o <<".", "0", "0">>

(***************************************************************************)
(* The Accounts table and the SQL statements the program issues.           *)
(* A row is <<AccountNumber, Balance, AccountType>>.                       *)
(***************************************************************************)
AccNum(i) == Str(<<"N">> \o Digits(i))

SqlCount == "SELECT COUNT(*) FROM Accounts"
SqlSum == "SELECT SUM(Balance) FROM Accounts"
SqlAvg == "SELECT AVG(Balance) FROM Accounts"
SqlTypes == "SELECT AccountType FROM Accounts"
SqlSumByType == "SELECT SUM(Balance) FROM Accounts WHERE AccountType = ?"
SqlBalances == "SELECT Balance FROM Accounts"
SqlTop == "SELECT TOP 5 AccountNumber, Balance, AccountType FROM Accounts ORDER BY Balance DESC"
TopLimit == 5

Column(rows, j) == [i \in 1..Len(rows) |-> rows[i][j]]

RECURSIVE SelectSeq2(_, _, _)
\* The subsequence of the rows whose column j satisfies SQL's "= v":
\* a comparison with NULL is never true.
SelectSeq2(rows, j, v) ==
  IF rows = <<>> THEN <<>>
  ELSE (IF v.tag # "null" /\ Head(rows)[j] = v THEN <<Head(rows)>> ELSE <<>>)
         \o SelectSeq2(Tail(rows), j, v)

RECURSIVE NonNull(_)
NonNull(cells) ==
  IF cells = <<>> THEN <<>>
  ELSE (IF Head(cells).tag = "null" THEN <<>> ELSE <<Head(cells)>>)
         \o NonNull(Tail(cells))

RECURSIVE Total(_)
Total(cells) == IF cells = <<>> THEN 0 ELSE Head(cells).n + Total(Tail(cells))

\* SUM(): NULLs are skipped; no non-NULL value gives NULL.
SqlSumOf(cells) ==
  LET nn == NonNull(cells)
  IN IF nn = <<>> THEN Null ELSE Num(nn[1].tag, Total(nn))

\* AVG(): as SUM(), divided by the number of non-NULL values.
SqlAvgOf(cells) ==
  LET nn == NonNull(cells)
  IN IF nn = <<>> THEN Null ELSE Num(nn[1].tag, Total(nn) \div Len(nn))

SortKey(row) == IF row[2].tag = "null" THEN 0 - 1 ELSE row[2].n

RECURSIVE InsertDesc(_, _)
InsertDesc(r, s) ==
  IF s = <<>> THEN <<r>>
  ELSE IF SortKey(Head(s)) > SortKey(r)
       THEN <<Head(s)>> \o InsertDesc(r, Tail(s))
       ELSE <<r>> \o s

RECURSIVE SortDesc(_)
SortDesc(rows) ==
  IF rows = <<>> THEN <<>> ELSE InsertDesc(Head(rows), SortDesc(Tail(rows)))

\* TOP 5 ... ORDER BY Balance DESC (NULL sorts lowest; ties in table order).
SqlTopOf(rows) ==
  LET s == SortDesc(rows)
  IN SubSeq(s, 1, IF Len(s) < TopLimit THEN Len(s) ELSE TopLimit)

(***************************************************************************)
(* State.                                                                  *)
(***************************************************************************)
VARIABLES
  db,           \* rows of the Accounts table
  page,         \* the sidebar radio's selection
  clicked,      \* the button whose press triggered this run ("none": no button)
  pc,           \* position of the run in main() and the page function
  conn,         \* "none" | "open" | "closed"
  closeCalls,   \* calls of conn.close() in this run
  pagesEntered, \* page functions entered in this run, in order
  sqlLog,       \* SQL statements passed to cursor.execute in this run, in order
  failures,     \* exceptions raised in this run, in order
  messages,     \* what st.error/warning/info/success/exception showed, in order
  handlers,     \* except blocks entered in this run
  total_accounts, total_balance, avg_balance,
  account_types, idx, account_type_counts, account_type_balances,
  df_accounts_by_type, top_accounts, df_top_accounts,
  account_numbers, selected_account, account_details_raw,
  df_accounts, selected_type, balance_range, filtered_df, filtered_df_display,
  csv_filtered, sql_query, query_results, df_results, csv_results, tables

runVars == <<page, clicked, conn, closeCalls, pagesEntered>>
logVars == <<sqlLog, failures, messages, handlers>>
metricVars == <<total_accounts, total_balance, avg_balance>>
aggVars == <<account_types, idx, account_type_counts, account_type_balances,
             df_accounts_by_type>>
topVars == <<top_accounts, df_top_accounts>>
dashVars == <<metricVars, aggVars, topVars>>
acctVars == <<account_numbers, selected_account, account_details_raw>>
filterVars == <<df_accounts, selected_type, balance_range, filtered_df,
                filtered_df_display, csv_filtered>>
adhocVars == <<sql_query, query_results, df_results, csv_results>>
explVars == <<filterVars, adhocVars, tables>>
notDashVars == <<acctVars, explVars>>
notAcctVars == <<dashVars, explVars>>
notExplVars == <<dashVars, acctVars>>
pageVars == <<dashVars, acctVars, explVars>>
vars == <<db, pc, runVars, logVars, pageVars>>

Pages == {"Dashboard", "Account Details", "Data Explorer"}
NoRow == <<>>

NoFrame == [columns |-> <<>>, rows |-> <<>>]

(***************************************************************************)
(* Exceptions and what the user is shown.                                  *)
(***************************************************************************)
Exc(type, op) == [type |-> type, op |-> op]
NoCause == Exc("", "")
DriverError(sql) == Exc("pyodbc.Error", sql)

\* One st.<kind>(text) call; cause is the exception whose text the message
\* embeds (NoCause: none), sql the SQL text it embeds ("": none).
Msg(kind, text, cause, sql) ==
  [kind |-> kind, text |-> text, cause |-> cause, sql |-> sql]

(***************************************************************************)
(* Initial states.                                                         *)
(***************************************************************************)
\* Every Accounts table of at most max rows; the Balance column has one
\* storage type.
Tables(max) ==
  UNION {{[i \in 1..n |-> <<AccNum(i), f[i][1], f[i][2]>>] :
            f \in [1..n -> ({Null} \cup {Num(bt, a) : a \in Amounts}) \X TypeCells]} :
         n \in 0..max, bt \in BalanceTypes}

RunStart ==
  /\ pc = "connect"
  /\ page \in Pages
  /\ clicked = "none"
  /\ conn = "none"
  /\ closeCalls = 0
  /\ pagesEntered = <<>>
  /\ sqlLog = <<>>
  /\ failures = <<>>
  /\ messages = <<>>
  /\ handlers = {}

DashStart ==
  /\ total_accounts = Null
  /\ total_balance = Null
  /\ avg_balance = Null
  /\ account_types = <<>>
  /\ idx = 0
  /\ account_type_counts = <<>>
  /\ account_type_balances = <<>>
  /\ df_accounts_by_type = NoFrame
  /\ top_accounts = <<>>
  /\ df_top_accounts = NoFrame

AcctStart ==
  /\ account_numbers = <<>>
  /\ selected_account = Null
  /\ account_details_raw = NoRow

NoCsv == [header |-> <<>>, lines |-> <<>>]

ExplStart ==
  /\ df_accounts = NoFrame
  /\ selected_type = Null
  /\ balance_range = <<Null, Null>>
  /\ filtered_df = NoFrame
  /\ filtered_df_display = NoFrame
  /\ csv_filtered = NoCsv
  /\ sql_query = ""
  /\ query_results = <<>>
  /\ df_results = NoFrame
  /\ csv_results = NoCsv
  /\ tables = <<>>

Init ==
  /\ db \in Tables(MaxRows)
  /\ RunStart
  /\ DashStart
  /\ AcctStart
  /\ ExplStart

(***************************************************************************)
(* main()                                                                  *)
(***************************************************************************)
\* connect_to_db(): the connection, or None after reporting the error.
Connect ==
  /\ pc = "connect"
  /\ \E ok \in BOOLEAN :
       IF ok
       THEN /\ conn' = "open"
            /\ pc' = "dispatch"
            /\ UNCHANGED logVars
       ELSE LET e == Exc("pyodbc.Error", "connect")
            IN /\ conn' = "none"
               /\ pc' = "noconn"
               /\ failures' = Append(failures, e)
               /\ messages' = Append(messages,
                    Msg("error", "Error connecting to database", e, ""))
               /\ handlers' = handlers \cup {"connect_to_db"}
               /\ UNCHANGED sqlLog
  /\ UNCHANGED <<db, page, clicked, closeCalls, pagesEntered, pageVars>>

\* "if conn is None" without its return: main() goes on to the page.
NoConnectionFallsThrough ==
  /\ pc = "noconn"
  /\ messages' = messages \o
       << Msg("warning", "Database connection failed", NoCause, ""),
          Msg("info", "Please check your database connection settings", NoCause, "") >>
  /\ pc' = "dispatch"
  /\ UNCHANGED <<db, page, clicked, conn, closeCalls, pagesEntered, sqlLog, failures,
                 handlers, pageVars>>

\* "if conn is None": the configuration form with its 'Test Connection'
\* button, then return.
NoConnection ==
  /\ pc = "noconn"
  /\ \E pressed \in BOOLEAN :
       /\ clicked' = IF pressed THEN "Test Connection" ELSE clicked
       /\ messages' = messages \o
            << Msg("warning", "Database connection failed", NoCause, ""),
               Msg("info", "Please check your database connection settings", NoCause, "") >>
            \o (IF pressed
                THEN <<Msg("info", "This would test your connection", NoCause, "")>>
                ELSE <<>>)
  /\ pc' = "done"
  /\ UNCHANGED <<db, page, conn, closeCalls, pagesEntered, sqlLog, failures,
                 handlers, pageVars>>

FirstPc(p) ==
  CASE p = "Dashboard" -> "d_cursor"
    [] p = "Account Details" -> "a_cursor"
    [] OTHER -> "e_cursor"

\* The page selected in the sidebar is rendered with the open connection.
Dispatch ==
  /\ pc = "dispatch"
  /\ pagesEntered' = Append(pagesEntered, page)
  /\ pc' = FirstPc(page)
  /\ UNCHANGED <<db, page, clicked, conn, closeCalls, logVars, pageVars>>

\* conn.close(), the last statement of main().
Close ==
  /\ pc = "close"
  /\ conn' = "closed"
  /\ closeCalls' = closeCalls + 1
  /\ pc' = "done"
  /\ UNCHANGED <<db, page, clicked, pagesEntered, logVars, pageVars>>

\* The next user interaction runs the script again from the top.
Rerun ==
  /\ pc = "done"
  /\ pc' = "connect"
  /\ page' \in Pages
  /\ clicked' = "none"
  /\ conn' = "none"
  /\ closeCalls' = 0
  /\ pagesEntered' = <<>>
  /\ sqlLog' = <<>>
  /\ failures' = <<>>
  /\ messages' = <<>>
  /\ handlers' = {}
  /\ total_accounts' = Null
  /\ total_balance' = Null
  /\ avg_balance' = Null
  /\ account_types' = <<>>
  /\ idx' = 0
  /\ account_type_counts' = <<>>
  /\ account_type_balances' = <<>>
  /\ df_accounts_by_type' = NoFrame
  /\ top_accounts' = <<>>
  /\ df_top_accounts' = NoFrame
  /\ account_numbers' = <<>>
  /\ selected_account' = Null
  /\ account_details_raw' = NoRow
  /\ df_accounts' = NoFrame
  /\ selected_type' = Null
  /\ balance_range' = <<Null, Null>>
  /\ filtered_df' = NoFrame
  /\ filtered_df_display' = NoFrame
  /\ csv_filtered' = NoCsv
  /\ sql_query' = ""
  /\ query_results' = <<>>
  /\ df_results' = NoFrame
  /\ csv_results' = NoCsv
  /\ tables' = <<>>
  /\ UNCHANGED db

(***************************************************************************)
(* display_dashboard(conn)                                                 *)
(***************************************************************************)
\* The except block, then the exception raised again to the caller.
DashHandlerReraise(e) ==
  /\ failures' = Append(failures, e)
  /\ messages' = Append(messages, Msg("error", "Error fetching dashboard data", e, ""))
  /\ handlers' = handlers \cup {"display_dashboard"}
  /\ pc' = "done"

\* The page's only except block: report, then return to main().
DashHandler(e) ==
  /\ failures' = Append(failures, e)
  /\ messages' = messages \o
       << Msg("error", "Error fetching dashboard data", e, ""),
          Msg("error", "Detailed error information for debugging:", NoCause, ""),
          Msg("exception", "", e, ""),
          Msg("info", "This dashboard is configured for a specific database schema", NoCause, "") >>
  /\ handlers' = handlers \cup {"display_dashboard"}
  /\ pc' = "close"

DashCursor ==
  /\ pc = "d_cursor"
  /\ \E ok \in BOOLEAN :
       IF ok
       THEN pc' = "d_count" /\ UNCHANGED <<failures, messages, handlers>>
       ELSE DashHandler(Exc("pyodbc.Error", "cursor"))
  /\ UNCHANGED <<db, runVars, notDashVars, sqlLog, dashVars>>

DashCount ==
  /\ pc = "d_count"
  /\ sqlLog' = Append(sqlLog, SqlCount)
  /\ \E ok \in BOOLEAN :
       IF ok
       THEN /\ total_accounts' = PyInt(Len(db))
            /\ pc' = "d_sum"
            /\ UNCHANGED <<failures, messages, handlers>>
       ELSE DashHandler(DriverError(SqlCount)) /\ UNCHANGED total_accounts
  /\ UNCHANGED <<db, runVars, notDashVars, total_balance, avg_balance, aggVars, topVars>>

DashSum ==
  /\ pc = "d_sum"
  /\ sqlLog' = Append(sqlLog, SqlSum)
  /\ \E ok \in BOOLEAN :
       IF ok
       THEN /\ total_balance' = SqlSumOf(Column(db, 2))
            /\ pc' = "d_avg"
            /\ UNCHANGED <<failures, messages, handlers>>
       ELSE DashHandler(DriverError(SqlSum)) /\ UNCHANGED total_balance
  /\ UNCHANGED <<db, runVars, notDashVars, total_accounts, avg_balance, aggVars, topVars>>

DashAvg ==
  /\ pc = "d_avg"
  /\ sqlLog' = Append(sqlLog, SqlAvg)
  /\ \E ok \in BOOLEAN :
       IF ok
       THEN /\ avg_balance' = SqlAvgOf(Column(db, 2))
            /\ pc' = "d_metrics"
            /\ UNCHANGED <<failures, messages, handlers>>
       ELSE DashHandler(DriverError(SqlAvg)) /\ UNCHANGED avg_balance
  /\ UNCHANGED <<db, runVars, notDashVars, total_accounts, total_balance, aggVars, topVars>>

\* The three st.metric calls: f"{total_accounts:,}", f"${total_balance:,.2f}",
\* f"${avg_balance:,.2f}".  A format spec applied to None raises TypeError.
DashMetrics ==
  /\ pc = "d_metrics"
  /\ IF total_balance.tag = "null"
     THEN DashHandler(Exc("TypeError", "format total_balance"))
     ELSE IF avg_balance.tag = "null"
          THEN DashHandler(Exc("TypeError", "format avg_balance"))
          ELSE pc' = "d_types" /\ UNCHANGED <<failures, messages, handlers>>
  /\ UNCHANGED <<db, runVars, notDashVars, sqlLog, dashVars>>

(***************************************************************************)
(* 'Accounts by Type': dicts keep insertion order, modelled as sequences   *)
(* of <<key, value>> pairs.                                                *)
(***************************************************************************)
DictKeys(d) == [i \in 1..Len(d) |-> d[i][1]]
DictValues(d) == [i \in 1..Len(d) |-> d[i][2]]
DictHas(d, k) == \E i \in 1..Len(d) : d[i][1] = k
DictGet(d, k) == d[CHOOSE i \in 1..Len(d) : d[i][1] = k][2]
\* d[k] = v: a new key goes last, an existing key keeps its place.
DictSet(d, k, v) ==
  IF DictHas(d, k)
  THEN [i \in 1..Len(d) |-> IF d[i][1] = k THEN <<k, v>> ELSE d[i]]
  ELSE Append(d, <<k, v>>)

\* Python truthiness of a fetched value: None and 0 are false.
Truthy(c) == ~(c.tag = "null" \/ (IsNumeric(c) /\ c.n = 0))

\* The loop body with the "+= 1" of the else branch lost.
CountTypeNoIncrement(counts, t) ==
  IF ~DictHas(counts, t) THEN DictSet(counts, t, 1) ELSE counts

\* The loop body with "account_type_counts[account_type] = 1" lost.
CountTypeFirstLost(counts, t) ==
  IF ~DictHas(counts, t)
  THEN counts
  ELSE DictSet(counts, t, DictGet(counts, t) + 1)

\* account_type_counts after one loop iteration for account_type t.
CountType(counts, t) ==
  IF ~DictHas(counts, t)
  THEN DictSet(counts, t, 1)
  ELSE DictSet(counts, t, DictGet(counts, t) + 1)

\* What the per-type SUM query returns for parameter t.
SumByType(rows, t) == SqlSumOf(Column(SelectSeq2(rows, 3, t), 2))

\* "balance if balance else 0"
BalanceOrZero(balance) == IF Truthy(balance) THEN balance ELSE PyInt(0)

\* pd.DataFrame({name: list, ...}): the lists must be equally long.
FrameOfLists(names, lists) ==
  IF \A j \in 1..Len(lists) : Len(lists[j]) = Len(lists[1])
  THEN [ok |-> TRUE,
        df |-> [columns |-> names,
                rows |-> [i \in 1..Len(lists[1]) |->
                            [j \in 1..Len(lists) |-> lists[j][i]]]]]
  ELSE [ok |-> FALSE, df |-> NoFrame]

DashTypes ==
  /\ pc = "d_types"
  /\ sqlLog' = Append(sqlLog, SqlTypes)
  /\ \E ok \in BOOLEAN :
       IF ok
       THEN /\ account_types' = Column(db, 3)
            /\ idx' = 1
            /\ pc' = "d_loop"
            /\ UNCHANGED <<failures, messages, handlers>>
       ELSE DashHandler(DriverError(SqlTypes)) /\ UNCHANGED <<account_types, idx>>
  /\ UNCHANGED <<db, runVars, notDashVars, metricVars, account_type_counts,
                 account_type_balances, df_accounts_by_type, topVars>>

\* One iteration of "for account_type in account_types".
DashLoop ==
  /\ pc = "d_loop"
  /\ idx <= Len(account_types)
  /\ LET t == account_types[idx]
     IN /\ account_type_counts' = CountType(account_type_counts, t)
        /\ IF ~DictHas(account_type_counts, t)
           THEN /\ sqlLog' = Append(sqlLog, SqlSumByType)
                /\ \E ok \in BOOLEAN :
                     IF ok
                     THEN /\ account_type_balances' =
                               DictSet(account_type_balances, t,
                                       BalanceOrZero(SumByType(db, t)))
                          /\ idx' = idx + 1
                          /\ UNCHANGED <<pc, failures, messages, handlers>>
                     ELSE /\ DashHandler(DriverError(SqlSumByType))
                          /\ UNCHANGED <<account_type_balances, idx>>
           ELSE /\ idx' = idx + 1
                /\ UNCHANGED <<pc, logVars, account_type_balances>>
  /\ UNCHANGED <<db, runVars, notDashVars, metricVars, account_types, df_accounts_by_type,
                 topVars>>

\* df_accounts_by_type and the pie and bar charts drawn from it.
DashFrame ==
  /\ pc = "d_loop"
  /\ idx > Len(account_types)
  /\ LET f == FrameOfLists(<<"Account Type", "Count", "Total Balance">>,
                           << DictKeys(account_type_counts),
                              [i \in 1..Len(account_type_counts) |->
                                 PyInt(account_type_counts[i][2])],
                              DictValues(account_type_balances) >>)
     IN IF ~f.ok
        THEN DashHandler(Exc("ValueError", "DataFrame")) /\ UNCHANGED df_accounts_by_type
        ELSE /\ df_accounts_by_type' = f.df
             /\ \E ok \in BOOLEAN :
                  IF ok
                  THEN pc' = "d_balances" /\ UNCHANGED <<failures, messages, handlers>>
                  ELSE DashHandler(Exc("Exception", "plotly_chart"))
  /\ UNCHANGED <<db, runVars, notDashVars, sqlLog, metricVars, account_types, idx,
                 account_type_counts, account_type_balances, topVars>>

\* 'Balance Distribution': the Balance query and the box plot.
DashBalances ==
  /\ pc = "d_balances"
  /\ sqlLog' = Append(sqlLog, SqlBalances)
  /\ \E ok \in BOOLEAN :
       IF ok
       THEN pc' = "d_top" /\ UNCHANGED <<failures, messages, handlers>>
       ELSE DashHandler(DriverError(SqlBalances))
  /\ UNCHANGED <<db, runVars, notDashVars, dashVars>>

(***************************************************************************)
(* 'Top 5 Accounts by Balance'                                             *)
(***************************************************************************)
TopColumns == <<"Account Number", "Balance", "Account Type">>
Unknown == Str(<<"U", "n", "k", "n", "o", "w", "n">>)

HasColumn(df, name) == \E j \in 1..Len(df.columns) : df.columns[j] = name
ColumnIndex(df, name) == CHOOSE j \in 1..Len(df.columns) : df.columns[j] = name

\* dtype inference of the DataFrame constructor: a column holding floats is
\* float64 and its None become NaN; any other column keeps its objects.
InferTypes(rows) ==
  [i \in 1..Len(rows) |->
     [j \in 1..Len(rows[i]) |->
        IF rows[i][j].tag = "null"
           /\ \E k \in 1..Len(rows) : rows[k][j].tag = "float"
        THEN NaN ELSE rows[i][j]]]

\* pd.DataFrame(rows, columns=names): every row must have len(names) items.
FrameOfRows(rows, names) ==
  IF \A i \in 1..Len(rows) : Len(rows[i]) = Len(names)
  THEN [ok |-> TRUE, df |-> [columns |-> names, rows |-> InferTypes(rows)]]
  ELSE [ok |-> FALSE, df |-> NoFrame]

\* df[name] = value for a column the frame lacks: appended as last column.
WithColumn(df, name, value) ==
  [columns |-> Append(df.columns, name),
   rows |-> [i \in 1..Len(df.rows) |-> Append(df.rows[i], value)]]

\* The build with the empty result's frame created without its columns.
BuildTopAccountsBareEmpty(top) ==
  IF top # <<>> /\ Len(top) > 0
  THEN FrameOfRows(top, TopColumns)
  ELSE [ok |-> TRUE, df |-> NoFrame]

\* The frame built from the fetched rows, or the ValueError of pd.DataFrame.
BuildTopAccounts(top) ==
  IF top # <<>> /\ Len(top) > 0
  THEN IF Len(top[1]) >= 3
       THEN FrameOfRows(top, TopColumns)
       ELSE LET columns == <<"Account Number">>
                             \o (IF Len(top[1]) > 1 THEN <<"Balance">> ELSE <<>>)
                             \o (IF Len(top[1]) > 2 THEN <<"Account Type">> ELSE <<>>)
                f == FrameOfRows(top, columns)
                d1 == IF ~HasColumn(f.df, "Balance")
                      THEN WithColumn(f.df, "Balance", Float(0)) ELSE f.df
                d2 == IF ~HasColumn(d1, "Account Type")
                      THEN WithColumn(d1, "Account Type", Unknown) ELSE d1
            IN IF f.ok THEN [ok |-> TRUE, df |-> d2] ELSE f
  ELSE [ok |-> TRUE, df |-> [columns |-> TopColumns, rows |-> <<>>]]

\* lambda x: f"${x:,.2f}"
FormatCell(c) ==
  IF c.tag = "nan" THEN Str(<<"$", "n", "a", "n">>) ELSE Str(Currency(c.n))

\* df[name]: the cells of a column.
ColumnOf(df, name) == Column(df.rows, ColumnIndex(df, name))

\* df[name] = values for a column the frame has: the cells replaced in place.
SetColumn(df, name, values) ==
  LET j == ColumnIndex(df, name)
  IN [df EXCEPT !.rows = [i \in 1..Len(df.rows) |->
                            [df.rows[i] EXCEPT ![j] = values[i]]]]

\* Series.apply(lambda x: f"${x:,.2f}")
Formatted(cells) == [i \in 1..Len(cells) |-> FormatCell(cells[i])]

\* The 'f' format code accepts numbers only: None raises TypeError, a str
\* raises ValueError.
Formattable(df, name) ==
  \A i \in 1..Len(df.rows) :
     LET c == df.rows[i][ColumnIndex(df, name)]
     IN IsNumeric(c) \/ c.tag = "nan"

\* "if 'Balance' in df_top_accounts.columns": the column is overwritten with
\* its formatted strings.
FormatTopAccounts(df) ==
  IF HasColumn(df, "Balance")
  THEN SetColumn(df, "Balance", Formatted(ColumnOf(df, "Balance")))
  ELSE df

DashTop ==
  /\ pc = "d_top"
  /\ sqlLog' = Append(sqlLog, SqlTop)
  /\ \E ok \in BOOLEAN :
       IF ok
       THEN /\ top_accounts' = SqlTopOf(db)
            /\ pc' = "d_build"
            /\ UNCHANGED <<failures, messages, handlers>>
       ELSE DashHandler(DriverError(SqlTop)) /\ UNCHANGED top_accounts
  /\ UNCHANGED <<db, runVars, notDashVars, metricVars, aggVars, df_top_accounts>>

DashBuildTop ==
  /\ pc = "d_build"
  /\ LET b == BuildTopAccounts(top_accounts)
     IN IF b.ok
        THEN /\ df_top_accounts' = b.df
             /\ pc' = "d_format"
             /\ UNCHANGED <<failures, messages, handlers>>
        ELSE DashHandler(Exc("ValueError", "DataFrame")) /\ UNCHANGED df_top_accounts
  /\ UNCHANGED <<db, runVars, notDashVars, sqlLog, metricVars, aggVars, top_accounts>>

DashFormatTop ==
  /\ pc = "d_format"
  /\ IF HasColumn(df_top_accounts, "Balance")
        /\ ~Formattable(df_top_accounts, "Balance")
     THEN DashHandler(Exc("TypeError", "format Balance")) /\ UNCHANGED df_top_accounts
     ELSE /\ df_top_accounts' = FormatTopAccounts(df_top_accounts)
          /\ pc' = "d_show"
          /\ UNCHANGED <<failures, messages, handlers>>
  /\ UNCHANGED <<db, runVars, notDashVars, sqlLog, metricVars, aggVars, top_accounts>>

\* st.dataframe(df_top_accounts, ...), the last statement of the try block.
DashShowTop ==
  /\ pc = "d_show"
  /\ \E ok \in BOOLEAN :
       IF ok
       THEN pc' = "close" /\ UNCHANGED <<failures, messages, handlers>>
       ELSE DashHandler(Exc("Exception", "dataframe"))
  /\ UNCHANGED <<db, runVars, notDashVars, sqlLog, dashVars>>

Dashboard ==
  \/ DashCursor \/ DashCount \/ DashSum \/ DashAvg \/ DashMetrics
  \/ DashTypes \/ DashLoop \/ DashFrame \/ DashBalances
  \/ DashTop \/ DashBuildTop \/ DashFormatTop \/ DashShowTop

(***************************************************************************)
(* display_account_details(conn)                                           *)
(***************************************************************************)
SqlNumbers == "SELECT AccountNumber FROM Accounts"
SqlDetails == "SELECT * FROM Accounts WHERE AccountNumber = ?"
SqlAvgByType == "SELECT AVG(Balance) FROM Accounts WHERE AccountType = ?"

SampleNumbers ==
  << Str(<<"A", "C", "C", "-", "1", "0", "0", "0", "1">>),
     Str(<<"A", "C", "C", "-", "1", "0", "0", "0", "2">>),
     Str(<<"A", "C", "C", "-", "1", "0", "0", "0", "3">>) >>

\* cursor.fetchone() of the details query: the first matching row, or None.
FetchDetails(rows, number) ==
  LET m == SelectSeq2(rows, 1, number)
  IN IF m = <<>> THEN NoRow ELSE m[1]

\* The outer except block of the page.
AcctOuterHandler(e) ==
  /\ failures' = Append(failures, e)
  /\ messages' = messages \o
       << Msg("error", "Error accessing account data", e, ""),
          Msg("exception", "", e, "") >>
  /\ handlers' = handlers \cup {"display_account_details"}
  /\ pc' = "close"

\* The except block around the details of the selected account.
AcctDetailsHandler(e) ==
  /\ failures' = Append(failures, e)
  /\ messages' = messages \o
       << Msg("error", "Error retrieving account details", e, ""),
          Msg("info", "This page is designed for a specific table structure", NoCause, "") >>
  /\ handlers' = handlers \cup {"account_details"}
  /\ pc' = "close"

AcctCursor ==
  /\ pc = "a_cursor"
  /\ \E ok \in BOOLEAN :
       IF ok
       THEN pc' = "a_list" /\ UNCHANGED <<failures, messages, handlers>>
       ELSE AcctOuterHandler(Exc("pyodbc.Error", "cursor"))
  /\ UNCHANGED <<db, runVars, sqlLog, pageVars>>

\* The account-number listing; on failure a warning and sample numbers.
AcctList ==
  /\ pc = "a_list"
  /\ sqlLog' = Append(sqlLog, SqlNumbers)
  /\ \E ok \in BOOLEAN :
       IF ok
       THEN /\ account_numbers' = Column(db, 1)
            /\ UNCHANGED <<failures, messages, handlers>>
       ELSE /\ failures' = Append(failures, DriverError(SqlNumbers))
            /\ messages' = Append(messages,
                 Msg("warning", "Could not retrieve account numbers", NoCause, ""))
            /\ handlers' = handlers \cup {"account_numbers"}
            /\ account_numbers' = SampleNumbers
  /\ pc' = "a_select"
  /\ UNCHANGED <<db, runVars, notAcctVars, selected_account, account_details_raw>>

\* st.selectbox: one of the options, None when there are none.
AcctSelect ==
  /\ pc = "a_select"
  /\ IF account_numbers = <<>>
     THEN selected_account' = Null /\ pc' = "close"
     ELSE /\ \E i \in 1..Len(account_numbers) : selected_account' = account_numbers[i]
          /\ pc' = "a_details"
  /\ UNCHANGED <<db, runVars, logVars, notAcctVars, account_numbers,
                 account_details_raw>>

\* The details query and fetchone(); no row: "Account ... not found".
AcctDetails ==
  /\ pc = "a_details"
  /\ sqlLog' = Append(sqlLog, SqlDetails)
  /\ \E ok \in BOOLEAN :
       IF ok
       THEN LET row == FetchDetails(db, selected_account)
            IN /\ account_details_raw' = row
               /\ IF row = NoRow
                  THEN /\ messages' = Append(messages,
                            Msg("warning", "Account not found", NoCause, ""))
                       /\ pc' = "close"
                  ELSE /\ pc' = "a_info"
                       /\ UNCHANGED messages
               /\ UNCHANGED <<failures, handlers>>
       ELSE AcctDetailsHandler(DriverError(SqlDetails)) /\ UNCHANGED account_details_raw
  /\ UNCHANGED <<db, runVars, notAcctVars, account_numbers, selected_account>>

\* 'Account Information' and 'Financial Details': the balance is shown with
\* f"${...:,.2f}".
AcctInfo ==
  /\ pc = "a_info"
  /\ IF ~IsNumeric(account_details_raw[2])
     THEN AcctDetailsHandler(Exc("TypeError", "format Balance"))
     ELSE pc' = "a_avgtype" /\ UNCHANGED <<failures, messages, handlers>>
  /\ UNCHANGED <<db, runVars, sqlLog, pageVars>>

\* The except block around the comparison chart; the page goes on.
AcctCompareHandler(e) ==
  /\ failures' = Append(failures, e)
  /\ messages' = messages \o
       << Msg("warning", "Couldn't generate comparison chart", NoCause, ""),
          Msg("error", "", e, "") >>
  /\ handlers' = handlers \cup {"comparison_chart"}
  /\ pc' = "a_actions"

AcctAvgType ==
  /\ pc = "a_avgtype"
  /\ sqlLog' = Append(sqlLog, SqlAvgByType)
  /\ \E ok \in BOOLEAN :
       IF ok
       THEN pc' = "a_avgall" /\ UNCHANGED <<failures, messages, handlers>>
       ELSE AcctCompareHandler(DriverError(SqlAvgByType))
  /\ UNCHANGED <<db, runVars, pageVars>>

\* The overall average and the bar chart.
AcctAvgAll ==
  /\ pc = "a_avgall"
  /\ sqlLog' = Append(sqlLog, SqlAvg)
  /\ \E r \in {"ok", "query", "chart"} :
       CASE r = "ok" -> pc' = "a_actions" /\ UNCHANGED <<failures, messages, handlers>>
         [] r = "query" -> AcctCompareHandler(DriverError(SqlAvg))
         [] r = "chart" -> AcctCompareHandler(Exc("Exception", "plotly_chart"))
  /\ UNCHANGED <<db, runVars, pageVars>>

ActionButtons == {"Simulate Deposit", "Simulate Withdrawal", "Generate Statement"}

\* The deposit or withdrawal written to the selected account's row.
TableAfterActionPersisted(rows, button, number) ==
  [i \in 1..Len(rows) |->
     IF rows[i][1] = number /\ IsNumeric(rows[i][2])
     THEN [rows[i] EXCEPT ![2] =
             Num(rows[i][2].tag,
                 rows[i][2].n + (CASE button = "Simulate Deposit" -> 100
                                   [] button = "Simulate Withdrawal" -> 0 - 50
                                   [] OTHER -> 0))]
     ELSE rows[i]]

\* What a pressed action button does to the Accounts table: nothing.
TableAfterAction(rows, button, number) == rows

\* The SQL statements a pressed action button issues: none.
SqlOfAction(button) == <<>>

ActionMessage(button) ==
  CASE button = "Simulate Deposit" -> Msg("success", "Simulated deposit of $100.00", NoCause, "")
    [] button = "Simulate Withdrawal" -> Msg("success", "Simulated withdrawal of $50.00", NoCause, "")
    [] button = "Generate Statement" -> Msg("success", "Statement generated successfully", NoCause, "")

\* 'Account Actions': at most one of the three buttons was pressed.
AcctActions ==
  /\ pc = "a_actions"
  /\ \E b \in ActionButtons \cup {"none"} :
       /\ clicked' = b
       /\ IF b = "none"
          THEN UNCHANGED <<db, sqlLog, messages>>
          ELSE /\ db' = TableAfterAction(db, b, selected_account)
               /\ sqlLog' = sqlLog \o SqlOfAction(b)
               /\ messages' = Append(messages, ActionMessage(b))
  /\ pc' = "close"
  /\ UNCHANGED <<page, conn, closeCalls, pagesEntered, failures, handlers, pageVars>>

AccountDetails ==
  \/ AcctCursor \/ AcctList \/ AcctSelect \/ AcctDetails \/ AcctInfo
  \/ AcctAvgType \/ AcctAvgAll \/ AcctActions

(***************************************************************************)
(* DataFrame.to_csv(index=False)                                           *)
(***************************************************************************)
Contains(t, ch) == \E i \in 1..Len(t) : t[i] = ch

RECURSIVE Doubled(_)
\* Inside a quoted field a quote character is written twice.
Doubled(t) ==
  IF t = <<>> THEN <<>>
  ELSE (IF Head(t) = "\"" THEN <<"\"", "\"">> ELSE <<Head(t)>>) \o Doubled(Tail(t))

\* The text of one value: a missing value is empty, a number is its repr,
\* a string is quoted when it holds the separator or a quote.
CsvField(c) ==
  CASE c.tag \in {"null", "nan"} -> <<>>
    [] c.tag \in {"int", "dec"} ->
         (IF c.n < 0 THEN <<"-">> ELSE <<>>) \o Digits(IF c.n < 0 THEN 0 - c.n ELSE c.n)
    [] c.tag = "float" ->
         (IF c.n < 0 THEN <<"-">> ELSE <<>>) \o Digits(IF c.n < 0 THEN 0 - c.n ELSE c.n)
           \o <<".", "0">>
    [] OTHER ->
         IF Contains(c.s, ",") \/ Contains(c.s, "\"")
         THEN <<"\"">> \o Doubled(c.s) \o <<"\"">>
         ELSE c.s

RECURSIVE CsvLine(_)
CsvLine(row) ==
  IF row = <<>> THEN <<>>
  ELSE IF Len(row) = 1 THEN CsvField(row[1])
       ELSE CsvField(row[1]) \o <<",">> \o CsvLine(Tail(row))

\* The header row (the column names, in order) and one line per row.
ToCsv(df) ==
  [header |-> df.columns, lines |-> [i \in 1..Len(df.rows) |-> CsvLine(df.rows[i])]]

(***************************************************************************)
(* display_data_explorer(conn)                                             *)
(***************************************************************************)
SqlAccounts == "SELECT AccountNumber, Balance, AccountType FROM Accounts"
SqlDefault == "SELECT AccountNumber, Balance, AccountType FROM Accounts WHERE Balance > 5000 ORDER BY Balance DESC"
SqlMalformed == "SELEC * FROM Accounts"
SqlTables == "SELECT TABLE_NAME FROM INFORMATION_SCHEMA.TABLES WHERE TABLE_TYPE = 'BASE TABLE'"
SqlTopOne == "SELECT TOP 1 * FROM Accounts"
DefaultThreshold == 5000

AccountsColumns == <<"AccountNumber", "Balance", "AccountType">>
AllOption == Str(<<"A", "l", "l">>)

\* The statements typed into the 'Enter SQL Query' box in this model.
AdhocQueries == {SqlDefault, SqlAccounts, SqlMalformed}

RECURSIVE Unique(_)
\* Series.unique(): the distinct values in order of first appearance.
Unique(cells) ==
  IF cells = <<>> THEN <<>>
  ELSE LET u == Unique(SubSeq(cells, 1, Len(cells) - 1))
           c == cells[Len(cells)]
       IN IF \E i \in 1..Len(u) : u[i] = c THEN u ELSE Append(u, c)

Numbers(cells) == {cells[i].n : i \in {k \in 1..Len(cells) : IsNumeric(cells[k])}}
SetMin(S) == CHOOSE x \in S : \A y \in S : x <= y
SetMax(S) == CHOOSE x \in S : \A y \in S : x >= y
\* float(Series.min()), float(Series.max()): missing values are skipped; NaN
\* when nothing is left.
ColumnMin(cells) == IF Numbers(cells) = {} THEN NaN ELSE Float(SetMin(Numbers(cells)))
ColumnMax(cells) == IF Numbers(cells) = {} THEN NaN ELSE Float(SetMax(Numbers(cells)))

\* The positions of the range slider the model tries.
SliderStops(lo, hi) ==
  IF lo.tag = "nan" THEN {NaN}
  ELSE {Float(k) : k \in {a \in Amounts \cup {lo.n, hi.n} : lo.n <= a /\ a <= hi.n}}

\* Elementwise comparisons of a column with a scalar: a missing value on
\* either side compares false.
CellEq(c, v) == c.tag \notin {"null", "nan"} /\ v.tag \notin {"null", "nan"} /\ c = v
CellGe(c, v) == IsNumeric(c) /\ IsNumeric(v) /\ c.n >= v.n
CellLe(c, v) == IsNumeric(c) /\ IsNumeric(v) /\ c.n <= v.n

\* The type filter, skipped for "All".
FilterByType(df, sel) ==
  IF sel # AllOption /\ HasColumn(df, "AccountType")
  THEN LET j == ColumnIndex(df, "AccountType")
           Keep(r) == CellEq(r[j], sel)
       IN [df EXCEPT !.rows = SelectSeq(df.rows, Keep)]
  ELSE df

\* The balance range filter.
FilterByRange(df, range) ==
  IF HasColumn(df, "Balance")
  THEN LET j == ColumnIndex(df, "Balance")
           Keep(r) == CellGe(r[j], range[1]) /\ CellLe(r[j], range[2])
       IN [df EXCEPT !.rows = SelectSeq(df.rows, Keep)]
  ELSE df

\* filtered_df after both filters.
ApplyFilters(df, sel, range) == FilterByRange(FilterByType(df, sel), range)

\* filtered_df_display: a copy whose Balance column holds the formatted text.
DisplayCopy(df) ==
  IF HasColumn(df, "Balance")
  THEN SetColumn(df, "Balance", Formatted(ColumnOf(df, "Balance")))
  ELSE df

\* lambda x: f"${x:,.2f}" if isinstance(x, (int, float)) else x
FormatIfNumber(c) == IF c.tag \in {"int", "float", "nan"} THEN FormatCell(c) ELSE c

\* df_results after "Format numeric columns if they exist".
FormatResults(df) ==
  IF HasColumn(df, "Balance")
  THEN SetColumn(df, "Balance",
                 [i \in 1..Len(df.rows) |-> FormatIfNumber(ColumnOf(df, "Balance")[i])])
  ELSE df

\* The rows a well-formed ad-hoc statement returns.
AdhocRows(rows, sql) ==
  IF sql = SqlDefault
  THEN LET Keep(r) == IsNumeric(r[2]) /\ r[2].n > DefaultThreshold
       IN SortDesc(SelectSeq(rows, Keep))
  ELSE rows

\* The inner except block: 'Error querying Accounts table', then the
\* 'Available Tables' section.
ExplFallbackHandler(e) ==
  /\ failures' = Append(failures, e)
  /\ messages' = messages \o
       << Msg("error", "Error querying Accounts table", e, ""),
          Msg("warning", "The Accounts table may not exist", NoCause, "") >>
  /\ handlers' = handlers \cup {"accounts_query"}
  /\ pc' = "e_meta"

\* The outer except block of the page.
ExplOuterHandler(e) ==
  /\ failures' = Append(failures, e)
  /\ messages' = messages \o
       << Msg("error", "Error in Data Explorer", e, ""),
          Msg("exception", "", e, "") >>
  /\ handlers' = handlers \cup {"display_data_explorer"}
  /\ pc' = "close"

\* The except block around the ad-hoc query, raising the exception again
\* into the enclosing try.
ExplAdhocHandlerReraise(e) ==
  /\ failures' = Append(failures, e)
  /\ messages' = messages \o
       << Msg("error", "Error executing query", e, ""),
          Msg("error", "Error querying Accounts table", e, ""),
          Msg("warning", "The Accounts table may not exist", NoCause, "") >>
  /\ handlers' = handlers \cup {"run_query", "accounts_query"}
  /\ pc' = "e_meta"

\* The except block around the ad-hoc query.
ExplAdhocHandler(e) ==
  /\ failures' = Append(failures, e)
  /\ messages' = Append(messages, Msg("error", "Error executing query", e, ""))
  /\ handlers' = handlers \cup {"run_query"}
  /\ pc' = "close"

ExplCursor ==
  /\ pc = "e_cursor"
  /\ \E ok \in BOOLEAN :
       IF ok
       THEN pc' = "e_query" /\ UNCHANGED <<failures, messages, handlers>>
       ELSE ExplOuterHandler(Exc("pyodbc.Error", "cursor"))
  /\ UNCHANGED <<db, runVars, sqlLog, pageVars>>

\* The primary query and df_accounts.
ExplQuery ==
  /\ pc = "e_query"
  /\ sqlLog' = Append(sqlLog, SqlAccounts)
  /\ \E ok \in BOOLEAN :
       IF ok
       THEN /\ df_accounts' = FrameOfRows(db, AccountsColumns).df
            /\ pc' = "e_filters"
            /\ UNCHANGED <<failures, messages, handlers>>
       ELSE ExplFallbackHandler(DriverError(SqlAccounts)) /\ UNCHANGED df_accounts
  /\ UNCHANGED <<db, runVars, notExplVars, selected_type, balance_range,
                 filtered_df, filtered_df_display, csv_filtered, adhocVars, tables>>

\* 'Filters': the type selectbox and the balance range slider.
ExplFilters ==
  /\ pc = "e_filters"
  /\ LET types == <<AllOption>> \o Unique(Column(df_accounts.rows, 3))
         lo == ColumnMin(Column(df_accounts.rows, 2))
         hi == ColumnMax(Column(df_accounts.rows, 2))
     IN \/ /\ \E i \in 1..Len(types) : selected_type' = types[i]
           /\ \E a, b \in SliderStops(lo, hi) :
                /\ CellLe(a, b) \/ a = NaN
                /\ balance_range' = <<a, b>>
           /\ pc' = "e_apply"
           /\ UNCHANGED <<failures, messages, handlers>>
        \/ /\ ExplFallbackHandler(Exc("StreamlitAPIException", "slider"))
           /\ UNCHANGED <<selected_type, balance_range>>
  /\ UNCHANGED <<db, runVars, sqlLog, notExplVars, df_accounts, filtered_df,
                 filtered_df_display, csv_filtered, adhocVars, tables>>

\* 'Apply filters' on a copy of df_accounts.  A Balance column of Decimal
\* objects with a None in it is an object column: comparing it with the
\* slider's floats either skips the None or raises TypeError.
ExplApply ==
  /\ pc = "e_apply"
  /\ \/ /\ filtered_df' = ApplyFilters(df_accounts, selected_type, balance_range)
        /\ pc' = "e_display"
        /\ UNCHANGED <<failures, messages, handlers>>
     \/ /\ LET f == FilterByType(df_accounts, selected_type)
           IN /\ \E i \in 1..Len(f.rows) : f.rows[i][2].tag = "null"
              /\ \E i \in 1..Len(f.rows) : f.rows[i][2].tag = "dec"
        /\ ExplFallbackHandler(Exc("TypeError", "compare Balance"))
        /\ UNCHANGED filtered_df
  /\ UNCHANGED <<db, runVars, sqlLog, notExplVars, df_accounts, selected_type,
                 balance_range, filtered_df_display, csv_filtered, adhocVars, tables>>

\* The formatted copy and st.dataframe.
ExplDisplay ==
  /\ pc = "e_display"
  /\ filtered_df_display' = DisplayCopy(filtered_df)
  /\ \E ok \in BOOLEAN :
       IF ok
       THEN pc' = "e_download" /\ UNCHANGED <<failures, messages, handlers>>
       ELSE ExplFallbackHandler(Exc("Exception", "dataframe"))
  /\ UNCHANGED <<db, runVars, sqlLog, notExplVars, df_accounts, selected_type,
                 balance_range, filtered_df, csv_filtered, adhocVars, tables>>

\* 'Download Data as CSV'.
ExplDownload ==
  /\ pc = "e_download"
  /\ \E ok \in BOOLEAN :
       IF ok
       THEN /\ csv_filtered' = ToCsv(filtered_df)
            /\ pc' = "e_adhoc"
            /\ UNCHANGED <<failures, messages, handlers>>
       ELSE /\ ExplFallbackHandler(Exc("Exception", "download_button"))
            /\ UNCHANGED csv_filtered
  /\ UNCHANGED <<db, runVars, sqlLog, notExplVars, df_accounts, selected_type,
                 balance_range, filtered_df, filtered_df_display, adhocVars, tables>>

\* 'Custom SQL Query': the text area and the 'Run Query' button.
ExplAdhoc ==
  /\ pc = "e_adhoc"
  /\ \E q \in AdhocQueries :
       /\ sql_query' = q
       /\ \/ /\ pc' = "close"
             /\ UNCHANGED <<clicked, logVars, query_results, df_results, csv_results>>
          \/ /\ clicked' = "Run Query"
             /\ sqlLog' = Append(sqlLog, q)
             /\ \/ /\ ExplAdhocHandler(DriverError(q))
                   /\ UNCHANGED <<query_results, df_results, csv_results>>
                \/ /\ q # SqlMalformed
                   /\ query_results' = AdhocRows(db, q)
                   /\ IF query_results' # <<>>
                      THEN LET df == FormatResults(FrameOfRows(query_results', AccountsColumns).df)
                           IN /\ df_results' = df
                              /\ \/ /\ csv_results' = ToCsv(df)
                                    /\ pc' = "close"
                                    /\ UNCHANGED <<failures, messages, handlers>>
                                 \/ /\ ExplAdhocHandler(Exc("Exception", "dataframe"))
                                    /\ UNCHANGED csv_results
                      ELSE /\ messages' = Append(messages,
                                Msg("info", "Query returned no results", NoCause, ""))
                           /\ pc' = "close"
                           /\ UNCHANGED <<failures, handlers, df_results, csv_results>>
  /\ UNCHANGED <<db, page, conn, closeCalls, pagesEntered, notExplVars, filterVars,
                 tables>>

\* 'Available Tables': the metadata query and the table list.
ExplMeta ==
  /\ pc = "e_meta"
  /\ sqlLog' = Append(sqlLog, SqlTables)
  /\ \/ /\ failures' = Append(failures, DriverError(SqlTables))
        /\ messages' = Append(messages,
             Msg("error", "Could not query database metadata", DriverError(SqlTables), ""))
        /\ handlers' = handlers \cup {"metadata"}
        /\ pc' = "close"
        /\ UNCHANGED tables
     \/ /\ tables' = <<>>
        /\ messages' = Append(messages,
             Msg("warning", "No tables found in the database.", NoCause, ""))
        /\ pc' = "close"
        /\ UNCHANGED <<failures, handlers>>
     \/ /\ tables' = <<"Accounts">>
        /\ pc' = "e_view"
        /\ UNCHANGED <<failures, messages, handlers>>
  /\ UNCHANGED <<db, runVars, notExplVars, filterVars, adhocVars>>

\* 'View Table Structure' of the selected table.
ExplView ==
  /\ pc = "e_view"
  /\ \/ UNCHANGED <<clicked, logVars>>
     \/ /\ clicked' = "View Table Structure"
        /\ sqlLog' = Append(sqlLog, SqlTopOne)
        /\ \/ UNCHANGED <<failures, messages, handlers>>
           \/ /\ failures' = Append(failures, DriverError(SqlTopOne))
              /\ messages' = Append(messages,
                   Msg("error", "Error examining table", DriverError(SqlTopOne), ""))
              /\ handlers' = handlers \cup {"view_table"}
  /\ pc' = "close"
  /\ UNCHANGED <<db, page, conn, closeCalls, pagesEntered, pageVars>>

DataExplorer ==
  \/ ExplCursor \/ ExplQuery \/ ExplFilters \/ ExplApply \/ ExplDisplay
  \/ ExplDownload \/ ExplAdhoc \/ ExplMeta \/ ExplView

Next ==
  \/ Connect \/ NoConnection \/ Dispatch \/ Close \/ Rerun
  \/ Dashboard
  \/ AccountDetails
  \/ DataExplorer

Spec == Init /\ [][Next]_vars

(***************************************************************************)
(* The 'Accounts by Type' aggregation on its own: the dashboard from the   *)
(* AccountType query on, for every table on which the three metrics were   *)
(* shown (SUM(Balance) is not NULL).                                       *)
(***************************************************************************)
InitAgg ==
  /\ db \in {t \in Tables(MaxAggRows) : SqlSumOf(Column(t, 2)) # Null}
  /\ pc = "d_types"
  /\ page = "Dashboard"
  /\ clicked = "none"
  /\ conn = "open"
  /\ closeCalls = 0
  /\ pagesEntered = <<"Dashboard">>
  /\ sqlLog = <<SqlCount, SqlSum, SqlAvg>>
  /\ failures = <<>>
  /\ messages = <<>>
  /\ handlers = {}
  /\ total_accounts = PyInt(Len(db))
  /\ total_balance = SqlSumOf(Column(db, 2))
  /\ avg_balance = SqlAvgOf(Column(db, 2))
  /\ account_types = <<>>
  /\ idx = 0
  /\ account_type_counts = <<>>
  /\ account_type_balances = <<>>
  /\ df_accounts_by_type = NoFrame
  /\ top_accounts = <<>>
  /\ df_top_accounts = NoFrame
  /\ AcctStart
  /\ ExplStart

NextAgg == DashTypes \/ DashLoop \/ DashFrame

SpecAgg == InitAgg /\ [][NextAgg]_vars

(***************************************************************************)
(* The 'Top 5' table on its own, for every result shape: the dashboard     *)
(* from the fetchall() of the Top 5 query on, the fetched rows being any   *)
(* rows of one arity.  The table itself is not read again by these steps.  *)
(***************************************************************************)
\* Row i of a result of arity k: the first k of account number, balance,
\* account type and further columns.
ResultRows(n, k, bt) ==
  {[i \in 1..n |-> SubSeq(<<AccNum(i), f[i][1], f[i][2]>>
                            \o [j \in 1..(MaxArity - 3) |-> PyInt(j)], 1, k)] :
     f \in [1..n -> ({Null} \cup {Num(bt, a) : a \in Amounts}) \X TypeCells]}

ResultShapes ==
  UNION {ResultRows(n, k, bt) :
           n \in 0..MaxTopRows, k \in 1..MaxArity, bt \in BalanceTypes}

InitTop ==
  /\ db = <<>>
  /\ pc = "d_build"
  /\ page = "Dashboard"
  /\ clicked = "none"
  /\ conn = "open"
  /\ closeCalls = 0
  /\ pagesEntered = <<"Dashboard">>
  /\ sqlLog = <<SqlTop>>
  /\ failures = <<>>
  /\ messages = <<>>
  /\ handlers = {}
  /\ total_accounts = Null
  /\ total_balance = Null
  /\ avg_balance = Null
  /\ account_types = <<>>
  /\ idx = 0
  /\ account_type_counts = <<>>
  /\ account_type_balances = <<>>
  /\ df_accounts_by_type = NoFrame
  /\ top_accounts \in ResultShapes
  /\ df_top_accounts = NoFrame
  /\ AcctStart
  /\ ExplStart

NextTop == DashBuildTop \/ DashFormatTop \/ DashShowTop \/ Close

SpecTop == InitTop /\ [][NextTop]_vars

(***************************************************************************)
(* A statement that never returns.  connect_to_db() passes no timeout to   *)
(* pyodbc.connect and sets none on the connection, and no cursor.execute   *)
(* is given one: a statement the server never answers keeps the run inside *)
(* that call.                                                              *)
(***************************************************************************)
\* The positions whose step begins with a cursor.execute, and its statement.
ExecutePositions ==
  {"d_count", "d_sum", "d_avg", "d_types", "d_balances", "d_top",
   "a_list", "a_details", "a_avgtype", "a_avgall", "e_query", "e_meta"}

StatementAt(p) ==
  CASE p = "d_count" -> SqlCount
    [] p = "d_sum" -> SqlSum
    [] p = "d_avg" -> SqlAvg
    [] p = "d_types" -> SqlTypes
    [] p = "d_balances" -> SqlBalances
    [] p = "d_top" -> SqlTop
    [] p = "a_list" -> SqlNumbers
    [] p = "a_details" -> SqlDetails
    [] p = "a_avgtype" -> SqlAvgByType
    [] p = "a_avgall" -> SqlAvg
    [] p = "e_query" -> SqlAccounts
    [] OTHER -> SqlTables

\* cursor.execute is entered and does not come back: nothing is raised, no
\* handler runs, and no later statement of the run is reached.
ExecuteNeverReturns ==
  /\ pc' = "in_execute"
  /\ \/ /\ pc \in ExecutePositions
        /\ sqlLog' = Append(sqlLog, StatementAt(pc))
        /\ UNCHANGED <<clicked, account_type_counts, sql_query>>
     \/ /\ pc = "d_loop"
        /\ idx <= Len(account_types)
        /\ ~DictHas(account_type_counts, account_types[idx])
        /\ account_type_counts' = CountType(account_type_counts, account_types[idx])
        /\ sqlLog' = Append(sqlLog, SqlSumByType)
        /\ UNCHANGED <<clicked, sql_query>>
     \/ /\ pc = "e_adhoc"
        /\ \E q \in AdhocQueries :
             /\ sql_query' = q
             /\ sqlLog' = Append(sqlLog, q)
        /\ clicked' = "Run Query"
        /\ UNCHANGED account_type_counts
     \/ /\ pc = "e_view"
        /\ clicked' = "View Table Structure"
        /\ sqlLog' = Append(sqlLog, SqlTopOne)
        /\ UNCHANGED <<account_type_counts, sql_query>>
  /\ UNCHANGED <<db, page, conn, closeCalls, pagesEntered, failures, messages,
                 handlers, metricVars, account_types, idx, account_type_balances,
                 df_accounts_by_type, topVars, acctVars, filterVars, query_results,
                 df_results, csv_results, tables>>

\* One statement of the running script: the script is a single thread that
\* goes on to its next statement whenever the current call returns.
RunStep ==
  \/ Connect \/ NoConnection \/ Dispatch \/ Close
  \/ Dashboard \/ AccountDetails \/ DataExplorer

NextBlocking == Next \/ ExecuteNeverReturns

SpecBlocking == Init /\ [][NextBlocking]_vars /\ WF_vars(RunStep)

(***************************************************************************)
(* Properties.                                                             *)
(***************************************************************************)

Occurrences(t) == {k \in 1..Len(account_types) : account_types[k] = t}
FirstOccurrence(t) == CHOOSE k \in Occurrences(t) : \A m \in Occurrences(t) : k <= m

\* C2: the rows of the 'Accounts by Type' table list every account type of
\* the query result exactly once, in the order of first occurrence, and each
\* Count is the number of result rows of that type.
C2_FirstSeenOrderAndCounts ==
  df_accounts_by_type # NoFrame =>
    LET rows == df_accounts_by_type.rows
    IN /\ account_types = Column(db, 3)
       /\ \A k \in 1..Len(account_types) :
            \E i \in 1..Len(rows) : rows[i][1] = account_types[k]
       /\ \A i \in 1..Len(rows) :
            /\ Occurrences(rows[i][1]) # {}
            /\ rows[i][2] = PyInt(Cardinality(Occurrences(rows[i][1])))
       /\ \A i, j \in 1..Len(rows) :
            i < j => FirstOccurrence(rows[i][1]) < FirstOccurrence(rows[j][1])

\* The query returned B, A, B and the table reads (B, 2), (A, 1).
C2_Witness ==
  /\ pc = "d_balances"
  /\ account_types = <<Str(<<"B">>), Str(<<"A">>), Str(<<"B">>)>>
  /\ Len(df_accounts_by_type.rows) = 2
  /\ df_accounts_by_type.rows[1][1] = Str(<<"B">>)
  /\ df_accounts_by_type.rows[1][2] = PyInt(2)
  /\ df_accounts_by_type.rows[2][1] = Str(<<"A">>)
  /\ df_accounts_by_type.rows[2][2] = PyInt(1)

\* The sum of Balance, NULL as 0, over the table rows of account type t (the
\* rows counted in t's group).
GroupSum(t) ==
  LET Keep(r) == r[3] = t
  IN Total(NonNull(Column(SelectSeq(db, Keep), 2)))

\* C3: in the 'Accounts by Type' table the Total Balance of every group,
\* the NULL group included, is the sum of Balance over the rows counted in
\* that group, NULL balances counting as 0.
C3_TotalIsGroupSum ==
  df_accounts_by_type # NoFrame =>
    \A i \in 1..Len(df_accounts_by_type.rows) :
       df_accounts_by_type.rows[i][3].n = GroupSum(df_accounts_by_type.rows[i][1])

\* C4: whatever the shape of the Top 5 result, once the table is built it
\* has exactly the columns Account Number, Balance, Account Type, a column
\* the rows lack holds its default (Balance 0.0, Account Type "Unknown"),
\* and the build raised nothing.
C4_TableAlwaysBuilt ==
  pc # "d_build" =>
    /\ df_top_accounts.columns = TopColumns
    /\ Len(df_top_accounts.rows) = Len(top_accounts)
    /\ \A e \in {failures[i] : i \in 1..Len(failures)} : e.op # "DataFrame"
    /\ pc = "d_format" =>
         \A i \in 1..Len(top_accounts) :
            /\ Len(top_accounts[i]) < 2 => df_top_accounts.rows[i][2] = Float(0)
            /\ Len(top_accounts[i]) < 3 => df_top_accounts.rows[i][3] = Unknown

\* C5: for a Top 5 result of zero rows the table has the three expected
\* columns and no rows, formatting the Balance column leaves it so, and
\* neither step raises or reports anything.
C5_EmptyResultEmptyTable ==
  (top_accounts = <<>> /\ pc # "d_build") =>
    /\ df_top_accounts = [columns |-> TopColumns, rows |-> <<>>]
    /\ pc \in {"d_format", "d_show"} =>
         (failures = <<>> /\ messages = <<>> /\ handlers = {})
    /\ \A i \in 1..Len(failures) : failures[i] = Exc("Exception", "dataframe")

\* The empty result went through the build and the formatting.
C5_Witness ==
  /\ top_accounts = <<>>
  /\ pc = "d_show"
  /\ df_top_accounts.columns = TopColumns
  /\ df_top_accounts.rows = <<>>
  /\ failures = <<>>

\* The exceptions of a run that come from outside the page's own handling of
\* the data: the driver, a widget, a renderer.
External(e) == e.type \in {"pyodbc.Error", "Exception", "StreamlitAPIException"}

\* C6: with an empty Accounts table, the Dashboard and Data Explorer pages
\* raise nothing of their own (every except block entered was entered for a
\* driver or renderer failure), and an ad-hoc query that returned zero rows
\* is answered with 'Query returned no results'.
C6_EmptyIsSuccess ==
  /\ (db = <<>> /\ page \in {"Dashboard", "Data Explorer"}) =>
       \A i \in 1..Len(failures) : External(failures[i])
  /\ (pc = "close" /\ clicked = "Run Query" /\ query_results = <<>>
        /\ "run_query" \notin handlers) =>
       \E i \in 1..Len(messages) :
          messages[i].kind = "info" /\ messages[i].text = "Query returned no results"

\* C7: every failure of a run is shown with its cause, and a failed ad-hoc
\* statement is shown with its SQL text as well.
C7_EveryFailureShownWithCause ==
  \A i \in 1..Len(failures) :
     /\ \E k \in 1..Len(messages) :
          /\ messages[k].kind \in {"error", "exception", "warning"}
          /\ messages[k].cause = failures[i]
     /\ (clicked = "Run Query" /\ failures[i].op = sql_query) =>
          \E k \in 1..Len(messages) :
             messages[k].cause = failures[i] /\ messages[k].sql = sql_query

BalanceCells(df) ==
  IF HasColumn(df, "Balance")
  THEN {df.rows[i][ColumnIndex(df, "Balance")] : i \in 1..Len(df.rows)}
  ELSE {}

\* C8: no table the program formats for display holds formatted strings in
\* its own Balance column: not the Top 5 table, not the filtered Data
\* Explorer table, not the ad-hoc result table.
C8_FormattingKeepsSource ==
  /\ \A c \in BalanceCells(df_top_accounts) : c.tag # "str"
  /\ \A c \in BalanceCells(filtered_df) : c.tag # "str"
  /\ \A c \in BalanceCells(df_results) : c.tag # "str"

(***************************************************************************)
(* Reading a CSV export back.                                              *)
(***************************************************************************)
RECURSIVE SplitFields(_, _, _)
\* The fields of one line: commas separate, a quoted field may hold commas
\* and doubled quotes.
SplitFields(t, cur, quoted) ==
  IF t = <<>> THEN <<cur>>
  ELSE IF quoted
       THEN IF Head(t) = "\""
            THEN IF Len(t) >= 2 /\ t[2] = "\""
                 THEN SplitFields(SubSeq(t, 3, Len(t)), Append(cur, "\""), TRUE)
                 ELSE SplitFields(Tail(t), cur, FALSE)
            ELSE SplitFields(Tail(t), Append(cur, Head(t)), TRUE)
       ELSE IF Head(t) = ","
            THEN <<cur>> \o SplitFields(Tail(t), <<>>, FALSE)
            ELSE IF Head(t) = "\""
                 THEN SplitFields(Tail(t), cur, TRUE)
                 ELSE SplitFields(Tail(t), Append(cur, Head(t)), FALSE)

IsDigit(ch) == \E d \in 1..10 : DigitChars[d] = ch
DigitValue(ch) == (CHOOSE d \in 1..10 : DigitChars[d] = ch) - 1
AllDigits(t) == t # <<>> /\ \A i \in 1..Len(t) : IsDigit(t[i])

RECURSIVE NatOf(_)
NatOf(t) == IF t = <<>> THEN 0 ELSE 10 * NatOf(SubSeq(t, 1, Len(t) - 1)) + DigitValue(t[Len(t)])

Unsigned(t) == IF t # <<>> /\ Head(t) = "-" THEN Tail(t) ELSE t
DotAt(t) == IF Contains(t, ".") THEN CHOOSE i \in 1..Len(t) : t[i] = "." ELSE Len(t) + 1
IntPart(t) == SubSeq(Unsigned(t), 1, DotAt(Unsigned(t)) - 1)
FracPart(t) == SubSeq(Unsigned(t), DotAt(Unsigned(t)) + 1, Len(Unsigned(t)))
IsNumberText(t) ==
  /\ AllDigits(IntPart(t))
  /\ Contains(Unsigned(t), ".") => AllDigits(FracPart(t))

\* One field read back: empty is a missing value, a number is a number,
\* anything else is the text itself.
ReadField(t) ==
  IF t = <<>> THEN NaN
  ELSE IF IsNumberText(t)
       THEN Float(IF Head(t) = "-" THEN 0 - NatOf(IntPart(t)) ELSE NatOf(IntPart(t)))
       ELSE Str(t)

ReadCsv(csv) ==
  [columns |-> csv.header,
   rows |-> [i \in 1..Len(csv.lines) |->
               LET f == SplitFields(csv.lines[i], <<>>, FALSE)
               IN [j \in 1..Len(f) |-> ReadField(f[j])]]]

\* The same raw value, whatever the number's textual form.
SameValue(a, b) ==
  \/ a.tag \in {"null", "nan"} /\ b.tag \in {"null", "nan"}
  \/ IsNumeric(a) /\ IsNumeric(b) /\ a.n = b.n
  \/ a.tag = "str" /\ b.tag = "str" /\ a.s = b.s

SameTable(read, typed) ==
  /\ read.columns = typed.columns
  /\ Len(read.rows) = Len(typed.rows)
  /\ \A i \in 1..Len(typed.rows) :
       /\ Len(read.rows[i]) = Len(typed.rows[i])
       /\ \A j \in 1..Len(typed.rows[i]) : SameValue(read.rows[i][j], typed.rows[i][j])

\* C9: each CSV export of Data Explorer reads back as the typed table it was
\* made for: the filtered accounts, and the rows the ad-hoc query returned,
\* with the same column names and the same raw values.
C9_ExportsReadBackRaw ==
  /\ csv_filtered # NoCsv => SameTable(ReadCsv(csv_filtered), filtered_df)
  /\ csv_results # NoCsv =>
       SameTable(ReadCsv(csv_results), FrameOfRows(query_results, AccountsColumns).df)

\* C10: a run's 'Account Actions' step, whichever button was pressed,
\* executes no SQL statement and leaves the Accounts table as it was.
C10_ActionsDoNotTouchTable ==
  [][pc = "a_actions" => (db' = db /\ sqlLog' = sqlLog)]_vars

\* A run in which 'Simulate Deposit' was pressed for an account with a
\* balance, after the page's queries.
C10_Witness ==
  /\ pc = "close"
  /\ clicked = "Simulate Deposit"
  /\ account_details_raw # NoRow
  /\ IsNumeric(account_details_raw[2])
  /\ Len(sqlLog) >= 2

\* C11: no statement blocks a run for ever: every run of main() that has
\* started reaches its return.
C11_EveryRunFinishes == (pc = "connect") ~> (pc = "done")

\* The positions inside the three page functions.
PagePositions ==
  {"d_cursor", "d_count", "d_sum", "d_avg", "d_metrics", "d_types", "d_loop",
   "d_balances", "d_top", "d_build", "d_format", "d_show",
   "a_cursor", "a_list", "a_select", "a_details", "a_info", "a_avgtype",
   "a_avgall", "a_actions",
   "e_cursor", "e_query", "e_filters", "e_apply", "e_display", "e_download",
   "e_adhoc", "e_meta", "e_view"}

\* C12: a failed connect_to_db() is reported and leaves no connection, and
\* the run then ends with no page function entered, no statement executed
\* and close() not called; a page function is entered only with a
\* connection, and a run with a connection enters exactly the selected page,
\* once.
C12_NoConnectionNoPage ==
  /\ "connect_to_db" \in handlers <=> pc \in {"noconn", "done"} /\ conn = "none"
  /\ conn = "none" => (pagesEntered = <<>> /\ sqlLog = <<>> /\ closeCalls = 0)
  /\ pc \in PagePositions => (conn = "open" /\ pagesEntered = <<page>>)
  /\ pagesEntered # <<>> => (conn # "none" /\ pagesEntered = <<page>>)
  /\ (pc \in {"close", "done"} /\ conn # "none") => pagesEntered = <<page>>

\* A run whose connection failed and that has returned from main() after
\* the 'Test Connection' button of the configuration form was pressed.
C12_Witness ==
  /\ pc = "done"
  /\ conn = "none"
  /\ "connect_to_db" \in handlers
  /\ clicked = "Test Connection"
  /\ pagesEntered = <<>>

\* The sum of the values of a dict of counts.
RECURSIVE SumCounts(_)
SumCounts(d) == IF d = <<>> THEN 0 ELSE d[1][2] + SumCounts(Tail(d))

\* C13: between the iterations of the 'Accounts by Type' loop the two dicts
\* hold the same keys in the same order and the counts add up to the number
\* of rows handled so far, which after the last iteration is the number of
\* rows the AccountType query returned; row by row, the table built from
\* them shows each type with its own count and its own total.
C13_DictsLineUp ==
  /\ pc = "d_loop" =>
       /\ DictKeys(account_type_counts) = DictKeys(account_type_balances)
       /\ SumCounts(account_type_counts) = idx - 1
       /\ idx > Len(account_types) =>
            SumCounts(account_type_counts) = Len(account_types)
  /\ df_accounts_by_type # NoFrame =>
       /\ Len(df_accounts_by_type.rows) = Len(account_type_counts)
       /\ SumCounts(account_type_counts) = Len(account_types)
       /\ \A i \in 1..Len(df_accounts_by_type.rows) :
            LET row == df_accounts_by_type.rows[i]
            IN /\ row[1] = account_type_counts[i][1]
               /\ row[2] = PyInt(DictGet(account_type_counts, row[1]))
               /\ row[3] = DictGet(account_type_balances, row[1])

\* The loop has ended on three rows of two types, the second type seen
\* first, and the table is built.
C13_Witness ==
  /\ pc = "d_balances"
  /\ Len(account_types) = 3
  /\ DictKeys(account_type_counts) = <<Str(<<"B">>), Str(<<"A">>)>>
  /\ DictKeys(account_type_balances) = <<Str(<<"B">>), Str(<<"A">>)>>
  /\ SumCounts(account_type_counts) = 3
  /\ Len(df_accounts_by_type.rows) = 2

\* The failures of the primary Accounts query and of the steps that build,
\* show and offer the filtered view.
PrimaryFailures ==
  {DriverError(SqlAccounts), Exc("StreamlitAPIException", "slider"),
   Exc("TypeError", "compare Balance"), Exc("Exception", "dataframe"),
   Exc("Exception", "download_button")}

\* The 'Available Tables' fallback has been entered in this run.
InFallback ==
  \/ "accounts_query" \in handlers
  \/ pc \in {"e_meta", "e_view"}
  \/ \E i \in 1..Len(sqlLog) : sqlLog[i] \in {SqlTables, SqlTopOne}
  \/ tables # <<>>

\* C14: the 'Available Tables' fallback is entered only by a failure of the
\* primary query or of building the filtered view, before the ad-hoc section
\* was reached; a failure of the ad-hoc query enters its own handler only,
\* never the fallback nor the outer handler, and leaves the filtered table,
\* its display copy and its CSV download as they were made.
C14_FallbackOnlyForPrimary ==
  /\ InFallback =>
       /\ "accounts_query" \in handlers
       /\ failures # <<>>
       /\ failures[1] \in PrimaryFailures
       /\ clicked # "Run Query"
       /\ sql_query = ""
       /\ "run_query" \notin handlers
       /\ \A i \in 1..Len(sqlLog) : sqlLog[i] = SqlTables => i > 1 /\ sqlLog[1] = SqlAccounts
  /\ "run_query" \in handlers =>
       /\ ~InFallback
       /\ "display_data_explorer" \notin handlers
       /\ Len(failures) = 1
       /\ filtered_df = ApplyFilters(df_accounts, selected_type, balance_range)
       /\ filtered_df_display = DisplayCopy(filtered_df)
       /\ csv_filtered = ToCsv(filtered_df)

\* The malformed ad-hoc statement has failed after a filtered table with
\* rows was shown and offered for download.
C14_Witness ==
  /\ "run_query" \in handlers
  /\ sql_query = SqlMalformed
  /\ pc = "close"
  /\ filtered_df.rows # <<>>
  /\ csv_filtered # NoCsv

====
